---- MODULE Spec2Model ----
(***************************************************************************)
(* Model of sales_chart_app.py: the CSV loader read_csv, the aggregator    *)
(* calculate_totals, the chart builder create_sales_chart and main.        *)
(*                                                                         *)
(* Text is modelled at character level: a string is a sequence of          *)
(* one-character strings, a file is the sequence of lines readlines()      *)
(* returns (each line keeps its line terminator).                          *)
(***************************************************************************)
EXTENDS Integers, Sequences, FiniteSets, TLC

VARIABLES
    fileState,   \* what the file system does with "data.csv"
    disk,        \* the lines of the file on disk
    pc,          \* position of main / read_csv
    handleOpen,  \* TRUE while the file object of the with statement is open
    lines,       \* read_csv: the local `lines`
    idx,         \* read_csv: position of the for loop in lines[1:] (1-based)
    data,        \* read_csv: the local `data`
    raised,      \* the last exception raised inside the try block ("None" if none)
    stdout,      \* messages printed by the except clauses
    main_data,   \* main: the local `data`, the value read_csv returned
    calls,       \* the functions main has called so far, in order
    totals,      \* main: the local `totals` (None until computed)
    chart,       \* main: the local `chart` (None until built)
    page,        \* the page: its properties and the controls added to it
    written,     \* the records the file was written from (None if it was not)
    R,           \* function harness: the record sequence passed in
    P,           \* function harness: a permutation of R
    totalsR,     \* function harness: calculate_totals(R)   (None until called)
    totalsP,     \* function harness: calculate_totals(P)   (None until called)
    chartR       \* function harness: create_sales_chart(R) (None until called)

vars == <<fileState, disk, pc, handleOpen, lines, idx, data, raised, stdout,
          main_data, calls, totals, chart, page, written,
          R, P, totalsR, totalsP, chartR>>

appVars == <<fileState, disk, pc, handleOpen, lines, idx, data, raised, stdout,
             main_data, calls, totals, chart, page, written>>

fnVars == <<R, P, totalsR, totalsP, chartR>>

\* An optional value: None, or Some(x).
None == <<>>
Some(x) == <<x>>

-----------------------------------------------------------------------------
(* Bounds of the model *)

\* Largest number of lines after the first line of an enumerated file.
MaxLines == 3

\* Largest number of records passed to calculate_totals / create_sales_chart
\* by the function harness.
MaxRecs == 3

-----------------------------------------------------------------------------
(* Strings *)

\* str.strip() without arguments removes these (of the model's alphabet).
Whitespace == {" ", "\t", "\n", "\r"}

DigitChars == <<"0", "1", "2", "3", "4", "5", "6", "7", "8", "9">>

IsDigit(c) == \E d \in 1..10 : DigitChars[d] = c

DigitValue(c) == (CHOOSE d \in 1..10 : DigitChars[d] = c) - 1

RECURSIVE lstrip(_)
lstrip(s) ==
    IF s # <<>> /\ Head(s) \in Whitespace THEN lstrip(Tail(s)) ELSE s

RECURSIVE rstrip(_)
rstrip(s) ==
    IF s # <<>> /\ s[Len(s)] \in Whitespace
    THEN rstrip(SubSeq(s, 1, Len(s) - 1))
    ELSE s

\* s.strip()
strip(s) == rstrip(lstrip(s))

\* s.split(","): scans s once, closing a field at every comma; always returns
\* at least one field.
RECURSIVE split_from(_, _, _, _)
split_from(s, i, cur, acc) ==
    IF i > Len(s) THEN Append(acc, cur)
    ELSE IF s[i] = ","
         THEN split_from(s, i + 1, <<>>, Append(acc, cur))
         ELSE split_from(s, i + 1, Append(cur, s[i]), acc)

split(s) == split_from(s, 1, <<>>, <<>>)

\* int(s): surrounding whitespace is dropped, then an optional sign, then
\* decimal digits in which single underscores may separate digits.  The scan
\* stops with a failure (ValueError) at the first character that does not fit.
\* prev is "start", "digit" or "underscore".
RECURSIVE int_scan(_, _, _, _)
int_scan(s, i, prev, acc) ==
    IF i > Len(s) THEN [ok |-> prev = "digit", value |-> acc]
    ELSE IF IsDigit(s[i])
         THEN int_scan(s, i + 1, "digit", acc * 10 + DigitValue(s[i]))
    ELSE IF s[i] = "_" /\ prev = "digit"
         THEN int_scan(s, i + 1, "underscore", acc)
    ELSE [ok |-> FALSE, value |-> 0]

int(s) ==
    LET t == strip(s)
        neg == t # <<>> /\ Head(t) = "-"
        body == IF t # <<>> /\ Head(t) \in {"+", "-"} THEN Tail(t) ELSE t
        r == int_scan(body, 1, "start", 0)
    IN  IF r.ok
        THEN [ok |-> TRUE, value |-> IF neg THEN 0 - r.value ELSE r.value]
        ELSE [ok |-> FALSE, value |-> 0]

-----------------------------------------------------------------------------
(* read_csv *)

body_lines_all(ls) == ls

\* lines[1:]
body_lines(ls) == SubSeq(ls, 2, Len(ls))

\* The classes an exception is an instance of.
Ancestors(e) ==
    CASE e = "FileNotFoundError"  -> {"FileNotFoundError", "OSError", "Exception"}
      [] e = "PermissionError"    -> {"PermissionError", "OSError", "Exception"}
      [] e = "OSError"            -> {"OSError", "Exception"}
      [] e = "UnicodeDecodeError" -> {"UnicodeDecodeError", "ValueError", "Exception"}
      [] e = "ValueError"         -> {"ValueError", "Exception"}
      [] OTHER                    -> {"Exception"}

except_clauses_no_catch_all == <<"FileNotFoundError", "ValueError">>

\* The except clauses of read_csv, in order.
except_clauses == <<"FileNotFoundError", "ValueError", "Exception">>

\* The index of the first clause that catches e, 0 if none does.
matching_clause(e) ==
    IF \E k \in 1..Len(except_clauses) : except_clauses[k] \in Ancestors(e)
    THEN CHOOSE k \in 1..Len(except_clauses) :
            /\ except_clauses[k] \in Ancestors(e)
            /\ \A j \in 1..(k - 1) : except_clauses[j] \notin Ancestors(e)
    ELSE 0

\* What each clause prints.
clause_message(k) ==
    CASE k = 1 -> "Error: File not found!"
      [] k = 2 -> "Error: Could not parse data"
      [] OTHER -> "Error"

parse_line_swapped(raw) ==
    LET line == strip(raw)
        parts == split(line)
        sales == IF Len(parts) = 3 THEN int(strip(parts[2])) ELSE [ok |-> FALSE, value |-> 0]
        expenses == IF Len(parts) = 3 THEN int(strip(parts[3])) ELSE [ok |-> FALSE, value |-> 0]
    IN  IF line = <<>> THEN [kind |-> "skip"]
        ELSE IF Len(parts) # 3 THEN [kind |-> "ValueError"]
        ELSE IF ~sales.ok \/ ~expenses.ok THEN [kind |-> "ValueError"]
        ELSE [kind |-> "record",
              record |-> [month |-> strip(parts[1]),
                          sales |-> expenses.value,
                          expenses |-> sales.value]]

parse_line_no_skip(raw) ==
    LET line == strip(raw)
        parts == split(line)
        sales == IF Len(parts) = 3 THEN int(strip(parts[2])) ELSE [ok |-> FALSE, value |-> 0]
        expenses == IF Len(parts) = 3 THEN int(strip(parts[3])) ELSE [ok |-> FALSE, value |-> 0]
    IN  IF Len(parts) # 3 THEN [kind |-> "ValueError"]
        ELSE IF ~sales.ok \/ ~expenses.ok THEN [kind |-> "ValueError"]
        ELSE [kind |-> "record",
              record |-> [month |-> strip(parts[1]),
                          sales |-> sales.value,
                          expenses |-> expenses.value]]

\* One pass of the loop body on a raw line: the line stripped, whether it is
\* skipped, whether it raises ValueError, and the record it appends.
parse_line(raw) ==
    LET line == strip(raw)
        parts == split(line)
        sales == IF Len(parts) = 3 THEN int(strip(parts[2])) ELSE [ok |-> FALSE, value |-> 0]
        expenses == IF Len(parts) = 3 THEN int(strip(parts[3])) ELSE [ok |-> FALSE, value |-> 0]
    IN  IF line = <<>> THEN [kind |-> "skip"]
        ELSE IF Len(parts) # 3 THEN [kind |-> "ValueError"]
        ELSE IF ~sales.ok \/ ~expenses.ok THEN [kind |-> "ValueError"]
        ELSE [kind |-> "record",
              record |-> [month |-> strip(parts[1]),
                          sales |-> sales.value,
                          expenses |-> expenses.value]]

-----------------------------------------------------------------------------
(* calculate_totals *)

\* sum(...) adds the items from left to right, starting from 0.
RECURSIVE sum_from(_, _, _)
sum_from(xs, i, acc) ==
    IF i > Len(xs) THEN acc ELSE sum_from(xs, i + 1, acc + xs[i])

sum(xs) == sum_from(xs, 1, 0)

calculate_totals_skip_first(d) ==
    LET total_sales == sum_from([i \in 1..Len(d) |-> d[i].sales], 2, 0)
        total_expenses == sum_from([i \in 1..Len(d) |-> d[i].expenses], 2, 0)
    IN  [sales |-> total_sales, expenses |-> total_expenses,
         profit |-> total_sales - total_expenses]

calculate_totals_profit_reversed(d) ==
    LET total_sales == sum([i \in 1..Len(d) |-> d[i].sales])
        total_expenses == sum([i \in 1..Len(d) |-> d[i].expenses])
    IN  [sales |-> total_sales, expenses |-> total_expenses,
         profit |-> total_expenses - total_sales]

calculate_totals(d) ==
    LET total_sales == sum([i \in 1..Len(d) |-> d[i].sales])
        total_expenses == sum([i \in 1..Len(d) |-> d[i].expenses])
        total_profit == total_sales - total_expenses
    IN  [sales |-> total_sales, expenses |-> total_expenses, profit |-> total_profit]

-----------------------------------------------------------------------------
(* create_sales_chart *)

max2(a, b) == IF b > a THEN b ELSE a

\* max(...) over a non-empty sequence keeps the largest item seen so far.
RECURSIVE max_from(_, _, _)
max_from(xs, i, best) ==
    IF i > Len(xs) THEN best ELSE max_from(xs, i + 1, max2(best, xs[i]))

\* max(max(item["sales"], item["expenses"]) for item in data), data non-empty
max_value(d) ==
    LET xs == [i \in 1..Len(d) |-> max2(d[i].sales, d[i].expenses)]
    IN  max_from(xs, 2, xs[1])

max_y(d) == ((max_value(d) \div 1000) + 1) * 1000

\* s[:3]
first3(s) == SubSeq(s, 1, IF Len(s) < 3 THEN Len(s) ELSE 3)

\* The label of one tick of the left axis: "0", or f"{value // 1000}K".
label_text(value) ==
    IF value = 0 THEN [number |-> 0, suffix |-> ""]
    ELSE [number |-> value \div 1000, suffix |-> "K"]

\* range(0, max_y + 1000, 1000), as a sequence
tick_values(top) ==
    LET n == IF top + 1000 > 0 THEN (top + 1000 + 999) \div 1000 ELSE 0
    IN  [k \in 1..n |-> (k - 1) * 1000]

create_sales_chart(d) ==
    LET groups ==
            [i \in 1..Len(d) |->
                [x |-> i - 1,
                 rods |-> << [from_y |-> 0, to_y |-> d[i].sales, color |-> "BLUE_400"],
                             [from_y |-> 0, to_y |-> d[i].expenses, color |-> "RED_400"] >>]]
        bottom_labels ==
            [i \in 1..Len(d) |-> [value |-> i - 1, label |-> first3(d[i].month)]]
        ticks == tick_values(max_y(d))
        left_labels ==
            [k \in 1..Len(ticks) |-> [value |-> ticks[k], label |-> label_text(ticks[k])]]
    IN  [groups |-> groups, left_axis |-> left_labels, bottom_axis |-> bottom_labels]

-----------------------------------------------------------------------------
(* Input files *)

Comma == <<",">>
NL == <<"\n">>

Jan == <<"J", "a", "n">>
Feb == <<"F", "e", "b">>
Mar == <<"M", "a", "r">>

\* The header of the example in the documentation of the file format.
HeaderLine ==
    <<"M", "o", "n", "t", "h">> \o Comma \o <<"S", "a", "l", "e", "s">> \o Comma
        \o <<"E", "x", "p", "e", "n", "s", "e", "s">> \o NL

\* well formed
LineJan == Jan \o Comma \o <<"1", "0", "0", "0">> \o Comma \o <<"5", "0", "0">> \o NL
\* well formed, fields padded with whitespace, a sign
LineFeb == <<" ">> \o Feb \o <<" ", ",", " ", "2", "0", ",", "\t", "-", "8", " ">> \o NL
\* accepted by int(): an underscore between digits
LineUnderscore == Mar \o Comma \o <<"1", "_", "0">> \o Comma \o <<"+", "7">> \o NL
\* empty, and whitespace only
LineEmpty == NL
LineSpaces == <<" ", "\t", "\n">>
\* two fields, four fields
LineTwoFields == Mar \o Comma \o <<"7">> \o NL
LineFourFields == Mar \o Comma \o <<"7">> \o Comma \o <<"8">> \o Comma \o <<"9">> \o NL
\* a sales field that is no integer, an empty expenses field
LineBadSales == Mar \o Comma \o <<"x", "1">> \o Comma \o <<"2">> \o NL
LineNoExpenses == Mar \o Comma \o <<"1">> \o Comma \o NL

WellFormedLines == {LineJan, LineFeb, LineUnderscore}
BlankLines == {LineEmpty, LineSpaces}
MalformedLines == {LineTwoFields, LineFourFields, LineBadSales, LineNoExpenses}

LinePool == WellFormedLines \cup BlankLines \cup MalformedLines

\* First lines: a header, a well-formed data line, a malformed line, a blank line.
HeaderPool == {HeaderLine, LineJan, LineBadSales, LineEmpty}

SeqsUpTo(S, n) == UNION {[1..k -> S] : k \in 0..n}

\* The enumerated files: the empty file, and a first line followed by up to
\* MaxLines lines.
Files ==
    {<<>>} \cup {<<h>> \o ls : h \in HeaderPool, ls \in SeqsUpTo(LinePool, MaxLines)}

\* What open() and readlines() do with the file.
FileStates == {"ok", "missing", "denied", "readerror", "undecodable"}

\* str(n) for an integer n
RECURSIVE digits_of(_)
digits_of(n) ==
    IF n < 10 THEN <<DigitChars[n + 1]>>
    ELSE digits_of(n \div 10) \o <<DigitChars[(n % 10) + 1]>>

str_int(n) == IF n < 0 THEN <<"-">> \o digits_of(0 - n) ELSE digits_of(n)

\* One record written as month,sales,expenses on a line of its own.
csv_line(rec) ==
    rec.month \o Comma \o str_int(rec.sales) \o Comma \o str_int(rec.expenses) \o NL

\* A header line followed by the records, one per line.
write_csv(recs) == <<HeaderLine>> \o [i \in 1..Len(recs) |-> csv_line(recs[i])]

\* Records to write: plain months, a month with an embedded comma, a month
\* with leading whitespace, an empty month.
WritePool ==
    { [month |-> Jan, sales |-> 1000, expenses |-> 500],
      [month |-> Feb, sales |-> 0, expenses |-> 0 - 30],
      [month |-> <<"M", ",", "r">>, sales |-> 1, expenses |-> 2],
      [month |-> <<" ", "A", "p">>, sales |-> 3, expenses |-> 4],
      [month |-> <<>>, sales |-> 5, expenses |-> 6] }

\* Records passed to the functions: those of the tests, and values around a
\* multiple of 1000.
RecordPool ==
    { [month |-> <<"J", "a", "n", "u", "a", "r", "y">>, sales |-> 1000, expenses |-> 500],
      [month |-> <<"F", "e", "b", "r", "u", "a", "r", "y">>, sales |-> 2000, expenses |-> 800],
      [month |-> <<"J", "a", "n", "u", "a", "r", "y">>, sales |-> 1000, expenses |-> 2000],
      [month |-> <<"J", "a", "n", "u", "a", "r", "y">>, sales |-> 0, expenses |-> 0],
      [month |-> <<"M", "a">>, sales |-> 999, expenses |-> 1001],
      [month |-> <<"M", "a", "y">>, sales |-> 0 - 1500, expenses |-> 0 - 1] }

\* The permutations of a sequence.
Permutations_of(s) ==
    { [i \in 1..Len(s) |-> s[f[i]]] :
        f \in {g \in [1..Len(s) -> 1..Len(s)] : \A i, j \in 1..Len(s) : g[i] = g[j] => i = j} }

-----------------------------------------------------------------------------
(* The application: main and read_csv, one action per step *)

NoPage == [title |-> "", padding |-> 0, scroll |-> "", controls |-> <<>>]

AppIdle ==
    /\ pc = "main"
    /\ handleOpen = FALSE
    /\ lines = <<>>
    /\ idx = 0
    /\ data = <<>>
    /\ raised = "None"
    /\ stdout = <<>>
    /\ main_data = <<>>
    /\ calls = <<>>
    /\ totals = None
    /\ chart = None
    /\ page = NoPage

FnIdle ==
    /\ R = <<>>
    /\ P = <<>>
    /\ totalsR = None
    /\ totalsP = None
    /\ chartR = None

Init ==
    /\ \/ /\ fileState = "ok"
          /\ disk \in Files
          /\ written = None
       \/ /\ fileState = "ok"
          /\ \E recs \in SeqsUpTo(WritePool, MaxLines) :
                /\ written = Some(recs)
                /\ disk = write_csv(recs)
       \/ /\ fileState = "missing"
          /\ disk = <<>>
          /\ written = None
       \/ /\ fileState \in FileStates \ {"ok", "missing"}
          /\ disk = <<HeaderLine, LineJan, LineFeb>>
          /\ written = None
    /\ AppIdle
    /\ FnIdle

\* main, lines 146-151: the page is set up and read_csv("data.csv") is called;
\* read_csv starts with an empty data list.
MainStart ==
    /\ pc = "main"
    /\ page' = [page EXCEPT !.title = "Sales Data Visualization",
                            !.padding = 30, !.scroll = "auto"]
    /\ calls' = Append(calls, "read_csv")
    /\ data' = <<>>
    /\ pc' = "open"
    /\ UNCHANGED <<fileState, disk, handleOpen, lines, idx, raised, stdout,
                   main_data, totals, chart, written>>
    /\ UNCHANGED fnVars

\* open(filename, "r")
Open ==
    /\ pc = "open"
    /\ IF fileState = "missing"
       THEN /\ raised' = "FileNotFoundError"
            /\ pc' = "except"
            /\ UNCHANGED handleOpen
       ELSE IF fileState = "denied"
       THEN /\ raised' = "PermissionError"
            /\ pc' = "except"
            /\ UNCHANGED handleOpen
       ELSE /\ handleOpen' = TRUE
            /\ pc' = "readlines"
            /\ UNCHANGED raised
    /\ UNCHANGED <<fileState, disk, lines, idx, data, stdout, main_data, calls,
                   totals, chart, page, written>>
    /\ UNCHANGED fnVars

\* lines = file.readlines()
ReadLines ==
    /\ pc = "readlines"
    /\ IF fileState = "readerror"
       THEN /\ raised' = "OSError"
            /\ UNCHANGED lines
       ELSE IF fileState = "undecodable"
       THEN /\ raised' = "UnicodeDecodeError"
            /\ UNCHANGED lines
       ELSE /\ lines' = disk
            /\ UNCHANGED raised
    /\ pc' = "with_exit"
    /\ UNCHANGED <<fileState, disk, handleOpen, idx, data, stdout, main_data,
                   calls, totals, chart, page, written>>
    /\ UNCHANGED fnVars

WithExit_leaks_on_error ==
    /\ pc = "with_exit"
    /\ handleOpen' = (raised # "None")
    /\ IF raised # "None"
       THEN pc' = "except" /\ UNCHANGED idx
       ELSE pc' = "loop" /\ idx' = 1
    /\ UNCHANGED <<fileState, disk, lines, data, raised, stdout, main_data,
                   calls, totals, chart, page, written>>
    /\ UNCHANGED fnVars

\* The end of the with block: the file is closed, whether the block ended
\* normally or with an exception; then the exception goes on to the except
\* clauses, or the for loop starts.
WithExit ==
    /\ pc = "with_exit"
    /\ handleOpen' = FALSE
    /\ IF raised # "None"
       THEN pc' = "except" /\ UNCHANGED idx
       ELSE pc' = "loop" /\ idx' = 1
    /\ UNCHANGED <<fileState, disk, lines, data, raised, stdout, main_data,
                   calls, totals, chart, page, written>>
    /\ UNCHANGED fnVars

\* One iteration of `for line in lines[1:]`: a blank line is skipped, a line
\* that does not parse raises ValueError, any other appends its record.
LoopBody ==
    /\ pc = "loop"
    /\ idx <= Len(body_lines(lines))
    /\ LET r == parse_line(body_lines(lines)[idx])
       IN  IF r.kind = "skip"
           THEN /\ idx' = idx + 1
                /\ UNCHANGED <<data, raised, pc>>
           ELSE IF r.kind = "ValueError"
           THEN /\ raised' = "ValueError"
                /\ pc' = "except"
                /\ UNCHANGED <<data, idx>>
           ELSE /\ data' = Append(data, r.record)
                /\ idx' = idx + 1
                /\ UNCHANGED <<raised, pc>>
    /\ UNCHANGED <<fileState, disk, handleOpen, lines, stdout, main_data,
                   calls, totals, chart, page, written>>
    /\ UNCHANGED fnVars

\* return data, after the loop; main stores it in its own `data`.
Return ==
    /\ pc = "loop"
    /\ idx > Len(body_lines(lines))
    /\ main_data' = data
    /\ pc' = "returned"
    /\ UNCHANGED <<fileState, disk, handleOpen, lines, idx, data, raised,
                   stdout, calls, totals, chart, page, written>>
    /\ UNCHANGED fnVars

Except_returns_partial ==
    /\ pc = "except"
    /\ LET k == matching_clause(raised)
       IN  IF k = 0
           THEN /\ pc' = "crashed"
                /\ UNCHANGED <<stdout, main_data>>
           ELSE /\ stdout' = Append(stdout, clause_message(k))
                /\ main_data' = data
                /\ pc' = "returned"
    /\ UNCHANGED <<fileState, disk, handleOpen, lines, idx, data, raised,
                   calls, totals, chart, page, written>>
    /\ UNCHANGED fnVars

\* The except clauses: the first one that matches prints its message and
\* returns []; an exception no clause matches leaves read_csv and main.
Except ==
    /\ pc = "except"
    /\ LET k == matching_clause(raised)
       IN  IF k = 0
           THEN /\ pc' = "crashed"
                /\ UNCHANGED <<stdout, main_data>>
           ELSE /\ stdout' = Append(stdout, clause_message(k))
                /\ main_data' = <<>>
                /\ pc' = "returned"
    /\ UNCHANGED <<fileState, disk, handleOpen, lines, idx, data, raised,
                   calls, totals, chart, page, written>>
    /\ UNCHANGED fnVars

\* if not data:
MainIf ==
    /\ pc = "returned"
    /\ pc' = IF main_data = <<>> THEN "error" ELSE "totals"
    /\ UNCHANGED <<fileState, disk, handleOpen, lines, idx, data, raised,
                   stdout, main_data, calls, totals, chart, page, written>>
    /\ UNCHANGED fnVars

ErrorText == [control |-> "Text", value |-> "Error: Could not load data from CSV file."]

MainError_no_return ==
    /\ pc = "error"
    /\ page' = [page EXCEPT !.controls = Append(@, ErrorText)]
    /\ pc' = "totals"
    /\ UNCHANGED <<fileState, disk, handleOpen, lines, idx, data, raised,
                   stdout, main_data, calls, totals, chart, written>>
    /\ UNCHANGED fnVars

\* The error branch: one Text is added to the page and main returns.
MainError ==
    /\ pc = "error"
    /\ page' = [page EXCEPT !.controls = Append(@, ErrorText)]
    /\ pc' = "done"
    /\ UNCHANGED <<fileState, disk, handleOpen, lines, idx, data, raised,
                   stdout, main_data, calls, totals, chart, written>>
    /\ UNCHANGED fnVars

\* totals = calculate_totals(data)
MainTotals ==
    /\ pc = "totals"
    /\ calls' = Append(calls, "calculate_totals")
    /\ totals' = Some(calculate_totals(main_data))
    /\ pc' = "chart"
    /\ UNCHANGED <<fileState, disk, handleOpen, lines, idx, data, raised,
                   stdout, main_data, chart, page, written>>
    /\ UNCHANGED fnVars

\* chart = create_sales_chart(data); max() of an empty sequence raises
\* ValueError, which nothing in main catches.
MainChart ==
    /\ pc = "chart"
    /\ calls' = Append(calls, "create_sales_chart")
    /\ IF main_data = <<>>
       THEN /\ raised' = "ValueError"
            /\ pc' = "crashed"
            /\ UNCHANGED chart
       ELSE /\ chart' = Some(create_sales_chart(main_data))
            /\ pc' = "build_ui"
            /\ UNCHANGED raised
    /\ UNCHANGED <<fileState, disk, handleOpen, lines, idx, data, stdout,
                   main_data, totals, page, written>>
    /\ UNCHANGED fnVars

\* page.add(title, summary, chart, legend)
MainBuildUI ==
    /\ pc = "build_ui"
    /\ page' = [page EXCEPT !.controls = @ \o
            << [control |-> "Text", value |-> "Monthly Sales and Expenses"],
               [control |-> "Container", value |-> totals[1]],
               [control |-> "Container", value |-> chart[1]],
               [control |-> "Row", value |-> <<"Sales", "Expenses">>] >>]
    /\ pc' = "done"
    /\ UNCHANGED <<fileState, disk, handleOpen, lines, idx, data, raised,
                   stdout, main_data, calls, totals, chart, written>>
    /\ UNCHANGED fnVars

Next ==
    \/ MainStart
    \/ Open
    \/ ReadLines
    \/ WithExit
    \/ LoopBody
    \/ Return
    \/ Except
    \/ MainIf
    \/ MainError
    \/ MainTotals
    \/ MainChart
    \/ MainBuildUI

Spec == Init /\ [][Next]_vars

-----------------------------------------------------------------------------
(* The functions on their own: calculate_totals and create_sales_chart applied
   to record sequences drawn from RecordPool *)

InitFn ==
    /\ fileState = "missing"
    /\ disk = <<>>
    /\ written = None
    /\ AppIdle
    /\ R \in SeqsUpTo(RecordPool, MaxRecs)
    /\ P \in Permutations_of(R)
    /\ totalsR = None
    /\ totalsP = None
    /\ chartR = None

CallTotals ==
    /\ totalsR = None
    /\ totalsR' = Some(calculate_totals(R))
    /\ UNCHANGED <<R, P, totalsP, chartR>>
    /\ UNCHANGED appVars

CallTotalsPermuted ==
    /\ totalsP = None
    /\ totalsP' = Some(calculate_totals(P))
    /\ UNCHANGED <<R, P, totalsR, chartR>>
    /\ UNCHANGED appVars

\* create_sales_chart is applied to non-empty sequences only
CallChart ==
    /\ chartR = None
    /\ R # <<>>
    /\ chartR' = Some(create_sales_chart(R))
    /\ UNCHANGED <<R, P, totalsR, totalsP>>
    /\ UNCHANGED appVars

NextFn ==
    \/ CallTotals
    \/ CallTotalsPermuted
    \/ CallChart

SpecFn == InitFn /\ [][NextFn]_vars

-----------------------------------------------------------------------------
(* What the claims speak of, stated without the operators of the program *)

\* read_csv has returned to main.
Returned == pc \in {"returned", "error", "totals", "chart", "build_ui", "done"}

\* The lines of the file after the first.
Rest(f) == IF f = <<>> THEN <<>> ELSE Tail(f)

IsBlank(raw) == \A i \in 1..Len(raw) : raw[i] \in Whitespace

\* s without its leading and trailing whitespace (s not blank).
Trimmed(s) ==
    IF IsBlank(s) THEN <<>>
    ELSE LET solid == {i \in 1..Len(s) : s[i] \notin Whitespace}
             a == CHOOSE i \in solid : \A j \in solid : i <= j
             b == CHOOSE i \in solid : \A j \in solid : j <= i
         IN  SubSeq(s, a, b)

CommaPositions(s) == {i \in 1..Len(s) : s[i] = ","}

\* The three fields of a line with exactly two commas, each trimmed.
FieldsOf(s) ==
    LET c1 == CHOOSE i \in CommaPositions(s) : \A j \in CommaPositions(s) : i <= j
        c2 == CHOOSE i \in CommaPositions(s) : \A j \in CommaPositions(s) : j <= i
    IN  << Trimmed(SubSeq(s, 1, c1 - 1)),
           Trimmed(SubSeq(s, c1 + 1, c2 - 1)),
           Trimmed(SubSeq(s, c2 + 1, Len(s))) >>

Unsigned(f) == IF f # <<>> /\ f[1] \in {"+", "-"} THEN Tail(f) ELSE f

\* A base-10 integer literal: an optional sign, then decimal digits, where a
\* single underscore may stand between two digits.
IsBase10Integer(f) ==
    LET u == Unsigned(f)
    IN  /\ u # <<>>
        /\ \A i \in 1..Len(u) :
              \/ IsDigit(u[i])
              \/ /\ u[i] = "_"
                 /\ 1 < i /\ i < Len(u)
                 /\ IsDigit(u[i - 1]) /\ IsDigit(u[i + 1])

RECURSIVE Pow10(_)
Pow10(k) == IF k = 0 THEN 1 ELSE 10 * Pow10(k - 1)

RECURSIVE SumOf(_)
SumOf(xs) == IF xs = <<>> THEN 0 ELSE Head(xs) + SumOf(Tail(xs))

\* The integer a base-10 literal denotes.
ValueOf(f) ==
    LET ds == SelectSeq(Unsigned(f), IsDigit)
        magnitude == SumOf([i \in 1..Len(ds) |-> DigitValue(ds[i]) * Pow10(Len(ds) - i)])
    IN  IF f[1] = "-" THEN 0 - magnitude ELSE magnitude

\* A non-blank line is well formed when it splits on commas into exactly three
\* fields of which the second and the third are base-10 integers.
WellFormedLine(raw) ==
    LET t == Trimmed(raw)
    IN  /\ Cardinality(CommaPositions(t)) = 2
        /\ IsBase10Integer(FieldsOf(t)[2])
        /\ IsBase10Integer(FieldsOf(t)[3])

RecordOfLine(raw) ==
    LET fs == FieldsOf(Trimmed(raw))
    IN  [month |-> fs[1], sales |-> ValueOf(fs[2]), expenses |-> ValueOf(fs[3])]

NotBlank(raw) == ~IsBlank(raw)

\* The non-blank lines among ls, in order.
Kept(ls) == SelectSeq(ls, NotBlank)

AllWellFormed(ls) == \A i \in 1..Len(ls) : IsBlank(ls[i]) \/ WellFormedLine(ls[i])

\* The load of the lines after the first: one record per non-blank line, in
\* order, or nothing at all if one of them is malformed.
LoadOf(ls) ==
    IF AllWellFormed(ls)
    THEN [k \in 1..Len(Kept(ls)) |-> RecordOfLine(Kept(ls)[k])]
    ELSE <<>>

\* A month that survives being written on a comma-separated line: no comma, no
\* line break, no whitespace at either end.
PlainMonth(m) ==
    /\ \A i \in 1..Len(m) : m[i] \notin {",", "\n", "\r"}
    /\ m = <<>> \/ (m[1] \notin Whitespace /\ m[Len(m)] \notin Whitespace)

\* m is the largest of the sales and expenses values of d.
IsMaxOf(m, d) ==
    /\ \A i \in 1..Len(d) : d[i].sales <= m /\ d[i].expenses <= m
    /\ \E i \in 1..Len(d) : d[i].sales = m \/ d[i].expenses = m

\* y is the smallest multiple of 1000 that is >= m.
SmallestMultipleAtLeast(y, m) == y % 1000 = 0 /\ y >= m /\ y - 1000 < m

-----------------------------------------------------------------------------
(* The claims *)

\* C1: calculate_totals(R) returns sales = the sum of the records' sales,
\* expenses = the sum of the records' expenses and profit = sales - expenses
\* (possibly negative); for the empty sequence all three are 0.
TotalsAreSums ==
    totalsR # None =>
        /\ totalsR[1].sales = SumOf([i \in 1..Len(R) |-> R[i].sales])
        /\ totalsR[1].expenses = SumOf([i \in 1..Len(R) |-> R[i].expenses])
        /\ totalsR[1].profit = totalsR[1].sales - totalsR[1].expenses
        /\ R = <<>> => totalsR[1] = [sales |-> 0, expenses |-> 0, profit |-> 0]

\* C1 witness: totals of several records whose expenses exceed their sales.
TotalsOfLossComputed ==
    /\ totalsR # None
    /\ Len(R) >= 2
    /\ totalsR[1].profit < 0
    /\ \E i \in 1..Len(R) : R[i].sales = 0

\* C2: read_csv lets no error escape: after a missing file, any other I/O
\* failure on open or read, or a parse failure, it returns normally and the
\* value returned is the empty sequence.
NoErrorEscapes ==
    /\ pc # "crashed"
    /\ (Returned /\ raised # "None") => main_data = <<>>

\* C2 witness: read_csv has returned after open() failed with an error other
\* than a missing file.
ReturnedAfterPermissionError ==
    pc = "returned" /\ raised = "PermissionError" /\ main_data = <<>>

\* C3: a malformed non-blank line after the header aborts the whole load:
\* read_csv returns the empty sequence wherever the line is and however many
\* well-formed lines came before it.
MalformedLineAbortsLoad ==
    (/\ Returned
     /\ fileState = "ok"
     /\ \E i \in 2..Len(disk) : ~IsBlank(disk[i]) /\ ~WellFormedLine(disk[i]))
    => main_data = <<>> /\ raised = "ValueError"

\* C3 witness: the load was aborted at the last line after two records had
\* been parsed.
AbortedAfterTwoRecords ==
    /\ pc = "returned"
    /\ raised = "ValueError"
    /\ Len(data) = 2
    /\ main_data = <<>>

\* C4 as stated: a file written from ANY list of records (one header line,
\* then month,sales,expenses per record) loads as exactly those records, in
\* order.
RoundTripAnyRecords ==
    (Returned /\ written # None) => main_data = written[1]

\* C4 amended: a file written from a list of records whose months contain no
\* comma and no line break and neither begin nor end with whitespace loads as
\* exactly those records, in order.
RoundTripPlainMonths ==
    (/\ Returned
     /\ written # None
     /\ \A i \in 1..Len(written[1]) : PlainMonth(written[1][i].month))
    => main_data = written[1]

\* C4 witness: three records with plain months, not all the same, written
\* and loaded.
ThreePlainRecordsLoaded ==
    /\ pc = "returned"
    /\ written # None
    /\ Len(written[1]) = 3
    /\ \A i \in 1..3 : PlainMonth(written[1][i].month)
    /\ written[1][1] # written[1][2]
    /\ written[1][2].expenses < 0

\* C5: when every non-blank line after the header is well formed, blank lines
\* (empty or whitespace only) add no record and cause no failure: as many
\* records are returned as there are non-blank lines after the header, in the
\* order of those lines.
BlankLinesOmitted ==
    (/\ Returned
     /\ fileState = "ok"
     /\ AllWellFormed(Rest(disk)))
    => /\ raised = "None"
       /\ Len(main_data) = Cardinality({i \in 2..Len(disk) : ~IsBlank(disk[i])})
       /\ \A k \in 1..Len(main_data) : main_data[k] = RecordOfLine(Kept(Rest(disk))[k])

\* C5 witness: a blank line between two well-formed lines, two records
\* returned.
BlankLineBetweenRecords ==
    /\ pc = "returned"
    /\ Len(disk) = 4
    /\ ~IsBlank(disk[2]) /\ IsBlank(disk[3]) /\ disk[3] # NL /\ ~IsBlank(disk[4])
    /\ Len(main_data) = 2

\* C6: the first line is discarded whatever it holds; what read_csv returns
\* is determined by the lines after the first alone.
FirstLineDiscarded ==
    (Returned /\ fileState = "ok") => main_data = LoadOf(Rest(disk))

\* C6 witness: a file whose first line is malformed as a data line has been
\* loaded, and records were returned.
MalformedFirstLineLoaded ==
    /\ pc = "returned"
    /\ disk # <<>>
    /\ disk[1] = LineBadSales
    /\ Len(main_data) >= 2

\* C7: when read_csv has returned, on whatever path, the file it opened is
\* closed.
HandleClosedOnReturn ==
    (Returned \/ pc = "crashed") => handleOpen = FALSE

\* C7 witness: read_csv has returned after readlines() failed on an open file.
ReturnedAfterReadFailure ==
    pc = "returned" /\ raised = "OSError" /\ fileState = "readerror"

\* C8: calculate_totals gives the same three fields for a record sequence and
\* for any permutation of it.
TotalsOrderIndependent ==
    (totalsR # None /\ totalsP # None) => totalsR = totalsP

\* C8 witness: totals computed for a sequence and for a different ordering of
\* it.
TotalsOfReorderingComputed ==
    /\ totalsR # None
    /\ totalsP # None
    /\ Len(R) = 3
    /\ P[1] # R[1]
    /\ R[1].sales # R[2].sales

\* C9: when read_csv returned the empty sequence, main adds exactly one error
\* text to the page and stops: calculate_totals and create_sales_chart are not
\* called, nothing else is added; create_sales_chart is only ever called with
\* a non-empty record sequence.
LoadFailureShowsOnlyError ==
    /\ (Returned /\ main_data = <<>>) =>
          /\ pc \in {"returned", "error", "done"}
          /\ calls = <<"read_csv">>
          /\ totals = None
          /\ chart = None
          /\ page.controls = IF pc = "done" THEN <<ErrorText>> ELSE <<>>
    /\ \A i \in 1..Len(calls) : calls[i] = "create_sales_chart" => main_data # <<>>

\* C9 witness: main has finished after a load that a malformed line aborted.
MainDoneAfterFailedLoad ==
    /\ pc = "done"
    /\ raised = "ValueError"
    /\ main_data = <<>>
    /\ page.controls = <<ErrorText>>

\* C10 as stated: max_y is the smallest multiple of 1000 that is greater than
\* or equal to the largest sales or expenses value of the records.
MaxYIsSmallestMultiple ==
    chartR # None =>
        \A m \in {R[i].sales : i \in 1..Len(R)} \cup {R[i].expenses : i \in 1..Len(R)} :
            IsMaxOf(m, R) => SmallestMultipleAtLeast(max_y(R), m)

====
